---- MODULE Spec2Model ----
(***************************************************************************)
(* A model of dircomp.py: the directory comparison (count_files,           *)
(* parse_directory, compare_directories, get_size) and the merge           *)
(* (merge_directories).  The file system is part of the state: a tree is   *)
(* a function from paths (sequences of names, <<>> is the root) to nodes.  *)
(***************************************************************************)
EXTENDS Integers, Sequences, FiniteSets, TLC

\* ---------------------------------------------------------------- bounds
\* Entry names of the modelled file systems, in a reference order.
NameSeq == <<"a", "b">>
Names == {NameSeq[i] : i \in 1..Len(NameSeq)}
\* Deepest entry of an initial tree (the root has depth 0).
MaxDepth == 2
\* Most entries (files and directories below the root) of an initial source
\* tree and of an initial target tree of a merge.
MaxEntries == 3
MaxTargetEntries == 2
\* Most entries below the root of a tree that is compared.
MaxWalkEntries == 2
\* Most calls of compare_directories in one process.
MaxRuns == 2

\* ----------------------------------------------------------------- paths
PathsOfLen(k) == [1..k -> Names]
PathsUpTo(n) == UNION {PathsOfLen(k) : k \in 1..n}
\* shutil.move into an existing directory lands one level below it.
AllPaths == PathsUpTo(MaxDepth + 1) \cup {<<>>}
InitPaths == PathsUpTo(MaxDepth)
Parent(p) == SubSeq(p, 1, Len(p) - 1)
Root == <<>>

\* ------------------------------------------------------ merge file system
\* A node of a merge tree: absent, a directory, or a file with its content.
\* Files that start under the source hold "A", files under the target "B".
Contents == {"A", "B"}
IsFileNode(n) == n \in Contents
Shapes(n) ==
  {S \in SUBSET InitPaths :
     /\ Cardinality(S) <= n
     /\ \A p \in S : Len(p) > 1 => Parent(p) \in S}
KindsOf(S) ==
  {K \in [S -> {"file", "dir"}] :
     \A p \in S : Len(p) > 1 => K[Parent(p)] = "dir"}
MkTree(S, K, c) ==
  [p \in AllPaths |->
     IF p = Root THEN "dir"
     ELSE IF p \in S THEN (IF K[p] = "dir" THEN "dir" ELSE c)
     ELSE "none"]
RootOnly(k) == [p \in AllPaths |-> IF p = Root THEN k ELSE "none"]
\* The trees a root can hold: a directory tree, a missing root, a plain file.
TreesWith(c, n) ==
  UNION {{MkTree(S, K, c) : K \in KindsOf(S)} : S \in Shapes(n)}
    \cup {RootOnly("none"), RootOnly(c)}
\* The orders os.scandir may list a directory in.
Orders == {NameSeq, [i \in 1..Len(NameSeq) |-> NameSeq[Len(NameSeq) + 1 - i]]}

VARIABLES
  source,      \* the tree at source_path
  target,      \* the tree at target_path
  order,       \* the order scandir lists names in
  overwrite, delete, dry_run,   \* arguments of the running merge_directories
  mpc,         \* position in merge_directories
  items,       \* what the loop over source_path.rglob('*') has still to yield
  dqueue,      \* what the loop over the sorted list of the delete pass has left
  actions,     \* actions reported (dry run) or applied, in order
  source0, target0,   \* the trees when merge_directories was called
  dryActions,  \* the actions a preceding dry run reported
  previewed    \* a dry run with the same arguments preceded this call

VARIABLES
  disk,          \* disk[1], disk[2]: the trees at path1 and path2
  total_files, differences,   \* the module's globals (lines 50-51)
  cpc,           \* position in compare_directories
  side,          \* which of the two parse_directory calls is running
  stack,         \* parse_directory's work list
  entries,       \* what the loop over os.scandir(current_path) has left
  seen_files, expected_files,   \* parse_directory's locals
  files1, files2, count1, count2, table,  \* compare_directories' locals
  idx,           \* position of the running loop over files1 or files2
  runs,          \* calls of compare_directories so far
  total0, differences0   \* the globals when compare_directories was called

mOnly == <<source, target, overwrite, delete, dry_run, mpc, items,
           dqueue, actions, source0, target0, dryActions, previewed>>
cOnly == <<disk, total_files, differences, cpc, side, stack, entries,
           seen_files, expected_files, files1, files2, count1, count2, table,
           idx, runs, total0, differences0>>
vars == <<order, mOnly, cOnly>>

\* ---------------------------------------------------- compared file system
\* A node of a compared tree: absent, a directory, a symbolic link to a
\* directory (to the root of its tree: a cycle), or a file of some size.
Sizes == {100, 1500}
None == [kind |-> "none", size |-> 0]
Dir == [kind |-> "dir", size |-> 0]
Link == [kind |-> "link", size |-> 0]
File(n) == [kind |-> "file", size |-> n]
FileNodes == {File(n) : n \in Sizes}
WPaths == InitPaths \cup {Root}
WShapes ==
  {S \in SUBSET InitPaths :
     /\ Cardinality(S) <= MaxWalkEntries
     /\ \A p \in S : Len(p) > 1 => Parent(p) \in S}
WKindsOf(S, nodes) ==
  {K \in [S -> nodes] : \A p \in S : Len(p) > 1 => K[Parent(p)] = Dir}
MkDisk(S, K) ==
  [p \in WPaths |-> IF p = Root THEN Dir ELSE IF p \in S THEN K[p] ELSE None]
DisksOf(nodes) ==
  UNION {{MkDisk(S, K) : K \in WKindsOf(S, nodes)} : S \in WShapes}
PlainDisks == DisksOf({Dir} \cup FileNodes)
LinkedDisks == DisksOf({Dir, Link} \cup FileNodes)
EmptyDisk == [p \in WPaths |-> IF p = Root THEN Dir ELSE None]

\* The place a path names once the symbolic links among its directories are
\* followed.
RECURSIVE Phys(_, _)
Phys(tree, p) ==
  IF p = Root THEN Root
  ELSE LET q == Append(Phys(tree, Parent(p)), p[Len(p)])
       IN IF q \in WPaths /\ tree[q] = Link THEN Root ELSE q
\* os.lstat and os.stat of a path.
Lstat(tree, p) ==
  IF p = Root THEN tree[Root]
  ELSE LET q == Append(Phys(tree, Parent(p)), p[Len(p)])
       IN IF q \in WPaths THEN tree[q] ELSE None
Stat(tree, p) ==
  LET q == Phys(tree, p) IN IF q \in WPaths THEN tree[q] ELSE None
\* os.path.islink.
IsLink(tree, p) == Lstat(tree, p).kind = "link"

\* os.scandir(p) of a compared tree: each entry with the type it is listed
\* with (DirEntry.is_file, DirEntry.is_dir follow symbolic links).
WScandir(tree, p, ord) ==
  LET all == [i \in 1..Len(ord) |->
                LET q == Append(p, ord[i])
                IN [path |-> q,
                    is_file |-> Stat(tree, q).kind = "file",
                    is_dir |-> Stat(tree, q).kind = "dir",
                    there |-> Lstat(tree, q).kind # "none"]]
  IN SelectSeq(all, LAMBDA e : e.there)

\* Lines 186-194: count_files; CountFrom is its loop from the i-th name on,
\* a name without an entry adding nothing.
RECURSIVE CountFiles(_, _)
RECURSIVE CountFrom(_, _, _)
CountFiles(tree, directory) == CountFrom(tree, directory, 1)
CountFrom(tree, directory, i) ==
  IF i > Len(NameSeq) THEN 0
  ELSE LET entry == Append(directory, NameSeq[i])
       IN (IF Stat(tree, entry).kind = "file" THEN 1
           ELSE IF Stat(tree, entry).kind = "dir" /\ ~IsLink(tree, entry)
                THEN CountFiles(tree, entry)
                ELSE 0)
          + CountFrom(tree, directory, i + 1)

\* round(n / d, 2) in hundredths, halves to the even neighbour.
Round2(n, d) ==
  LET w == n \div d
      r == (n % d) * 100
      q == r \div d
      m == r % d
  IN w * 100 + (IF 2 * m < d THEN q
                ELSE IF 2 * m > d THEN q + 1
                ELSE IF q % 2 = 0 THEN q ELSE q + 1)
\* Lines 406-418: get_size; at 1024^4 and above no branch returns a value.
Kib == 1024
GetSize(size) ==
  IF size < Kib THEN [num |-> size, unit |-> "bytes"]
  ELSE IF size < Kib * Kib THEN [num |-> Round2(size, Kib), unit |-> "KB"]
  ELSE IF size < Kib * Kib * Kib
       THEN [num |-> Round2(size, Kib * Kib), unit |-> "MB"]
  ELSE IF size \div Kib < Kib * Kib * Kib
       THEN [num |-> Round2(size, Kib * Kib * Kib), unit |-> "GB"]
  ELSE [num |-> 0, unit |-> "None"]
NoValue == [num |-> 0, unit |-> ""]

\* Lines 390-396: remove_prefix.
RemovePrefix(text, prefix) ==
  IF Len(prefix) <= Len(text) /\ SubSeq(text, 1, Len(prefix)) = prefix
  THEN SubSeq(text, Len(prefix) + 1, Len(text))
  ELSE text

\* A dict, in insertion order: membership, lookup, assignment.
DictHas(d, k) == \E i \in 1..Len(d) : d[i].key = k
DictGet(d, k) == d[CHOOSE i \in 1..Len(d) : d[i].key = k].val
DictSet(d, k, v) ==
  IF DictHas(d, k)
  THEN [i \in 1..Len(d) |-> IF d[i].key = k THEN [key |-> k, val |-> v] ELSE d[i]]
  ELSE Append(d, [key |-> k, val |-> v])
Keys(d) == {d[i].key : i \in 1..Len(d)}

CompareIdle ==
  /\ total_files = 0 /\ differences = 0
  /\ cpc = "idle" /\ side = 1
  /\ stack = <<>> /\ entries = <<>>
  /\ seen_files = 0 /\ expected_files = 0
  /\ files1 = <<>> /\ files2 = <<>> /\ count1 = 0 /\ count2 = 0
  /\ table = <<>> /\ idx = 1 /\ runs = 0
  /\ total0 = 0 /\ differences0 = 0

\* Lines 232-244: compare_directories up to the first parse_directory, which
\* counts the files (204) and starts its work list (209).  Neither global is
\* set here or anywhere else.
CompareDirectories ==
  /\ cpc \in {"idle", "returned"}
  /\ UNCHANGED <<order, mOnly>>
  /\ runs < MaxRuns
  /\ runs' = runs + 1
  /\ total0' = total_files /\ differences0' = differences
  /\ files1' = <<>> /\ files2' = <<>> /\ count1' = 0 /\ count2' = 0
  /\ table' = <<>> /\ idx' = 1
  /\ side' = 1
  /\ expected_files' = CountFiles(disk[1], Root)
  /\ seen_files' = 0
  /\ stack' = <<Root>> /\ entries' = <<>>
  /\ cpc' = "walk"
  /\ UNCHANGED <<disk, total_files, differences>>

\* Lines 210-212: the next directory is taken off the work list and listed.
ParsePop ==
  /\ cpc = "walk" /\ entries = <<>> /\ stack # <<>>
  /\ UNCHANGED <<order, mOnly>>
  /\ LET current_path == stack[Len(stack)]
     IN /\ stack' = SubSeq(stack, 1, Len(stack) - 1)
        /\ entries' = WScandir(disk[side], current_path, order)
  /\ UNCHANGED <<disk, total_files, differences, cpc, side, seen_files,
                 expected_files, files1, files2, count1, count2, table, idx,
                 runs, total0, differences0>>

\* A faulty Descends: a symbolic link to a directory is entered too.
DescendsIntoLinks(tree, e) == e.is_dir
\* Lines 227-228: a directory is put on the work list unless it is a link.
Descends(tree, e) == e.is_dir /\ ~IsLink(tree, e.path)

\* Lines 213-229: one entry of the listing.  os.path.getsize of a file that
\* is gone raises FileNotFoundError, which nothing catches.
ParseEntry ==
  /\ cpc = "walk" /\ entries # <<>>
  /\ UNCHANGED <<order, mOnly>>
  /\ LET e == Head(entries)
         st == Stat(disk[side], e.path)
         files == IF side = 1 THEN files1 ELSE files2
         put == DictSet(files, RemovePrefix(e.path, Root), GetSize(st.size))
     IN /\ entries' = Tail(entries)
        /\ IF e.is_file
           THEN /\ total_files' = total_files + 1
                /\ seen_files' = seen_files + 1
                /\ UNCHANGED stack
                /\ IF st.kind = "file"
                   THEN /\ files1' = IF side = 1 THEN put ELSE files1
                        /\ files2' = IF side = 2 THEN put ELSE files2
                        /\ UNCHANGED cpc
                   ELSE /\ cpc' = "raised"
                        /\ UNCHANGED <<files1, files2>>
           ELSE /\ stack' = IF Descends(disk[side], e)
                            THEN Append(stack, e.path) ELSE stack
                /\ UNCHANGED <<total_files, seen_files, files1, files2, cpc>>
  /\ UNCHANGED <<disk, differences, side, expected_files, count1, count2,
                 table, idx, runs, total0, differences0>>

\* Lines 210, 245-248: the work list is empty; the first call is followed by
\* the second, the second by the loops over the two dicts.
ParseDone ==
  /\ cpc = "walk" /\ entries = <<>> /\ stack = <<>>
  /\ UNCHANGED <<order, mOnly>>
  /\ IF side = 1
     THEN /\ count1' = total_files
          /\ side' = 2
          /\ expected_files' = CountFiles(disk[2], Root)
          /\ seen_files' = 0
          /\ stack' = <<Root>>
          /\ UNCHANGED <<cpc, count2>>
     ELSE /\ count2' = total_files - count1
          /\ cpc' = "loop1"
          /\ UNCHANGED <<side, expected_files, seen_files, stack, count1>>
  /\ UNCHANGED <<disk, total_files, differences, entries, files1, files2,
                 table, idx, runs, total0, differences0>>

Row(status, path, v1, v2) ==
  [status |-> status, path |-> path, v1 |-> v1, v2 |-> v2]

\* A faulty LeftRow: a common key with unequal values passes unreported.
LeftRowNoModified(file_path, attribute1, right) ==
  IF DictHas(right, file_path) THEN <<>>
  ELSE <<Row("MissingRight", file_path, attribute1, NoValue)>>
\* Lines 272-283: the rows one key of files1 adds.
LeftRow(file_path, attribute1, right) ==
  IF DictHas(right, file_path)
  THEN IF attribute1 # DictGet(right, file_path)
       THEN <<Row("Modified", file_path, attribute1, DictGet(right, file_path))>>
       ELSE <<>>
  ELSE <<Row("MissingRight", file_path, attribute1, NoValue)>>
\* Lines 287-289: the rows one key of files2 adds.
RightRow(file_path, left, right) ==
  IF ~DictHas(left, file_path)
  THEN <<Row("MissingLeft", file_path, NoValue, DictGet(right, file_path))>>
  ELSE <<>>

\* Lines 271-283: one iteration of the loop over files1, or its end.
CompareLeft ==
  /\ cpc = "loop1"
  /\ UNCHANGED <<order, mOnly>>
  /\ IF idx <= Len(files1)
     THEN LET rows == LeftRow(files1[idx].key, files1[idx].val, files2)
          IN /\ differences' = differences + Len(rows)
             /\ table' = table \o rows
             /\ idx' = idx + 1
             /\ UNCHANGED cpc
     ELSE /\ cpc' = "loop2"
          /\ idx' = 1
          /\ UNCHANGED <<differences, table>>
  /\ UNCHANGED <<disk, total_files, side, stack, entries, seen_files,
                 expected_files, files1, files2, count1, count2, runs, total0,
                 differences0>>

\* Lines 286-318: one iteration of the loop over files2, or its end, after
\* which the title shows differences and the statistics count1 and count2.
CompareRight ==
  /\ cpc = "loop2"
  /\ UNCHANGED <<order, mOnly>>
  /\ IF idx <= Len(files2)
     THEN LET rows == RightRow(files2[idx].key, files1, files2)
          IN /\ differences' = differences + Len(rows)
             /\ table' = table \o rows
             /\ idx' = idx + 1
             /\ UNCHANGED cpc
     ELSE /\ cpc' = "returned"
          /\ UNCHANGED <<differences, table, idx>>
  /\ UNCHANGED <<disk, total_files, side, stack, entries, seen_files,
                 expected_files, files1, files2, count1, count2, runs, total0,
                 differences0>>

\* Another process removes a file of the tree that is being walked.
ExternalDelete ==
  /\ cpc = "walk"
  /\ UNCHANGED <<order, mOnly>>
  /\ \E p \in WPaths :
       /\ disk[side][p].kind = "file"
       /\ disk' = [disk EXCEPT ![side][p] = None]
  /\ UNCHANGED <<total_files, differences, cpc, side, stack, entries,
                 seen_files, expected_files, files1, files2, count1, count2,
                 table, idx, runs, total0, differences0>>

WalkStep == ParsePop \/ ParseEntry \/ ParseDone

NextCompare ==
  \/ CompareDirectories
  \/ WalkStep
  \/ CompareLeft
  \/ CompareRight

MergeUnused ==
  /\ source = RootOnly("dir") /\ target = RootOnly("dir")
  /\ overwrite = FALSE /\ delete = FALSE /\ dry_run = FALSE
  /\ mpc = "idle"
  /\ items = <<>> /\ dqueue = <<>> /\ actions = <<>>
  /\ source0 = source /\ target0 = target
  /\ dryActions = <<>> /\ previewed = FALSE

\* Two trees of directories and files are compared, MaxRuns times over.
Init ==
  /\ disk \in [1..2 -> PlainDisks]
  /\ order \in Orders
  /\ CompareIdle
  /\ MergeUnused
Spec == Init /\ [][NextCompare]_vars

\* A tree with symbolic links is compared with a copy of itself; a walk that
\* can take a step does.
InitWalk ==
  /\ \E t \in LinkedDisks : disk = [s \in 1..2 |-> t]
  /\ order \in Orders
  /\ CompareIdle
  /\ MergeUnused
SpecWalk == InitWalk /\ [][NextCompare]_vars /\ WF_vars(WalkStep)

\* The same, with other processes deleting files of the trees meanwhile.
NextRace ==
  \/ NextCompare
  \/ ExternalDelete
SpecRace == InitWalk /\ [][NextRace]_vars

\* ------------------------------------------------------------------ merge
\* Path.exists(), Path.is_dir() on a well-formed tree.
Exists(tree, p) == tree[p] # "none"
IsDir(tree, p) == tree[p] = "dir"

\* os.scandir(p): the entries of directory p, in the file system's order.
Scandir(tree, p, ord) ==
  SelectSeq([i \in 1..Len(ord) |-> Append(p, ord[i])],
            LAMBDA q : q \in AllPaths /\ Exists(tree, q))

\* Path.rglob('*'): the entries of a directory, then the same below each of
\* its subdirectories, a directory always before what it holds.
RECURSIVE RGlob(_, _, _)
RECURSIVE RGlobEach(_, _, _)
RGlob(tree, p, ord) ==
  LET kids == Scandir(tree, p, ord)
  IN kids \o RGlobEach(tree, kids, ord)
RGlobEach(tree, ps, ord) ==
  IF ps = <<>> THEN <<>>
  ELSE (IF IsDir(tree, Head(ps)) THEN RGlob(tree, Head(ps), ord) ELSE <<>>)
         \o RGlobEach(tree, Tail(ps), ord)

\* Path.mkdir(parents=True, exist_ok=True); ok is FALSE where it raises.
AncestorIsFile(tree, p) ==
  \E k \in 0..(Len(p) - 1) : IsFileNode(tree[SubSeq(p, 1, k)])
Mkdir(tree, p) ==
  IF AncestorIsFile(tree, p) \/ IsFileNode(tree[p])
  THEN [ok |-> FALSE, tree |-> tree]
  ELSE [ok |-> TRUE,
        tree |-> [q \in AllPaths |->
                    IF Len(q) <= Len(p) /\ q = SubSeq(p, 1, Len(q))
                    THEN "dir" ELSE tree[q]]]

\* shutil.move(item, target_item) of a file: into target_item when that is a
\* directory (an error if the name is taken there), else onto target_item.
ShutilMove(src, tgt, item, titem) ==
  LET real_dst == IF IsDir(tgt, titem) THEN Append(titem, item[Len(item)])
                  ELSE titem
      fails == IF IsDir(tgt, titem) THEN Exists(tgt, real_dst)
               ELSE ~IsDir(tgt, Parent(titem))
  IN IF fails THEN [ok |-> FALSE, src |-> src, tgt |-> tgt]
     ELSE [ok |-> TRUE,
           src |-> [src EXCEPT ![item] = "none"],
           tgt |-> [tgt EXCEPT ![real_dst] = src[item]]]

\* A faulty ShouldMove: an existing target file is always replaced.
ShouldMoveAlways(tgt, titem, ow) == TRUE
\* Line 362: a file is moved when its target path is free or overwrite is set.
ShouldMove(tgt, titem, ow) == ~Exists(tgt, titem) \/ ow
\* Line 363.
ActionName(tgt, titem) == IF Exists(tgt, titem) THEN "overwrite" ELSE "move"
Act(op, p) == [op |-> op, path |-> p]

\* Lines 355-359: a missing target directory is created unless dry_run.
ApplyMkdir(d, tgt, p) ==
  IF d THEN [ok |-> TRUE, tree |-> tgt] ELSE Mkdir(tgt, p)
\* A faulty ApplyMove: the dry_run flag is ignored.
ApplyMoveAlways(d, src, tgt, item, titem) == ShutilMove(src, tgt, item, titem)
\* Lines 365-369: the file is moved unless dry_run.
ApplyMove(d, src, tgt, item, titem) ==
  IF d THEN [ok |-> TRUE, src |-> src, tgt |-> tgt]
  ELSE ShutilMove(src, tgt, item, titem)
\* Lines 382-386: the empty directory is removed unless dry_run.
ApplyRmdir(d, src, p) ==
  IF d THEN src ELSE [src EXCEPT ![p] = "none"]

\* Line 330: the source must be a directory.
SourceInvalid(src) == ~IsDir(src, Root)
\* A faulty TargetInvalid: the check of line 334 is missing.
TargetInvalidNever(tgt) == FALSE
\* Line 334: the target, when it exists, must be a directory.
TargetInvalid(tgt) == Exists(tgt, Root) /\ ~IsDir(tgt, Root)

\* Lines 326-342: validation, the target root, the start of the loop.  A call
\* follows a finished dry run with the same overwrite and delete (the preview
\* is applied), or is the first.
MergeDirectories(o, dl, d) ==
  /\ IF mpc = "idle" THEN TRUE
     ELSE mpc = "done" /\ dry_run /\ ~d /\ o = overwrite /\ dl = delete
  /\ overwrite' = o /\ delete' = dl /\ dry_run' = d
  /\ source0' = source /\ target0' = target
  /\ previewed' = (mpc = "done")
  /\ dryActions' = IF mpc = "done" THEN actions ELSE <<>>
  /\ dqueue' = <<>>
  /\ UNCHANGED <<source, order, cOnly>>
  /\ IF SourceInvalid(source)
     THEN /\ mpc' = "raised"
          /\ UNCHANGED target /\ items' = <<>> /\ actions' = <<>>
     ELSE IF TargetInvalid(target)
     THEN /\ mpc' = "raised"
          /\ UNCHANGED target /\ items' = <<>> /\ actions' = <<>>
     ELSE /\ mpc' = "items"
          /\ items' = RGlob(source, Root, order)
          /\ IF Exists(target, Root)
             THEN UNCHANGED target /\ actions' = <<>>
             ELSE /\ actions' = <<Act("mkroot", Root)>>
                  /\ target' = ApplyMkdir(d, target, Root).tree

\* Lines 347-375: one iteration of the loop over the source entries.  An
\* exception of mkdir or shutil.move is not caught: the merge ends there.
MergeItem ==
  /\ mpc = "items" /\ items # <<>>
  /\ UNCHANGED cOnly
  /\ LET item == Head(items)
         target_item == item
     IN /\ items' = Tail(items)
        /\ UNCHANGED <<order, overwrite, delete, dry_run, dqueue, source0,
                       target0, dryActions, previewed>>
        /\ IF IsDir(source, item)
           THEN IF ~Exists(target, target_item)
                THEN LET r == ApplyMkdir(dry_run, target, target_item)
                     IN /\ target' = r.tree
                        /\ mpc' = IF r.ok THEN mpc ELSE "raised"
                        /\ actions' = IF r.ok
                                      THEN Append(actions, Act("mkdir", item))
                                      ELSE actions
                        /\ UNCHANGED source
                ELSE UNCHANGED <<source, target, mpc, actions>>
           ELSE IF ShouldMove(target, target_item, overwrite)
                THEN LET a == Act(ActionName(target, target_item), item)
                         r == ApplyMove(dry_run, source, target, item, target_item)
                     IN /\ source' = r.src
                        /\ target' = r.tgt
                        /\ mpc' = IF r.ok THEN mpc ELSE "raised"
                        /\ actions' = IF r.ok THEN Append(actions, a)
                                      ELSE actions
                ELSE UNCHANGED <<source, target, mpc, actions>>

\* A faulty DepthKey: the sign is lost and the shallowest come first.
DepthKeyAscending(p) == Len(p) - 1
\* Line 380: the sort key, minus the number of separators in the relative path.
DepthKey(p) == -(Len(p) - 1)
\* sorted(..., key=...): stable, ascending in the key.
RECURSIVE SortedByKey(_, _)
SortedByKey(ps, k) ==
  IF k > MaxDepth + 1 THEN <<>>
  ELSE SelectSeq(ps, LAMBDA q : DepthKey(q) = k) \o SortedByKey(ps, k + 1)
\* Line 381: a directory with no entry.
IsEmptyDir(tree, p) ==
  /\ IsDir(tree, p)
  /\ \A n \in Names : Append(p, n) \in AllPaths => ~Exists(tree, Append(p, n))

\* Lines 347, 378-380: the loop is over; the delete pass lists the source.
MergeLoopEnd ==
  /\ mpc = "items" /\ items = <<>>
  /\ UNCHANGED cOnly
  /\ IF delete
     THEN /\ mpc' = "delete"
          /\ dqueue' = SortedByKey(RGlob(source, Root, order), -(MaxDepth + 1))
     ELSE /\ mpc' = "done"
          /\ dqueue' = <<>>
  /\ UNCHANGED <<source, target, order, overwrite, delete, dry_run, items,
                 actions, source0, target0, dryActions, previewed>>

\* Lines 380-386: one iteration of the delete pass.
MergeDelete ==
  /\ mpc = "delete" /\ dqueue # <<>>
  /\ UNCHANGED cOnly
  /\ LET sub_dir == Head(dqueue)
     IN /\ dqueue' = Tail(dqueue)
        /\ IF IsEmptyDir(source, sub_dir)
           THEN /\ actions' = Append(actions, Act("rmdir", sub_dir))
                /\ source' = ApplyRmdir(dry_run, source, sub_dir)
           ELSE UNCHANGED <<source, actions>>
  /\ UNCHANGED <<target, order, overwrite, delete, dry_run, mpc, items,
                 source0, target0, dryActions, previewed>>

\* Line 386: the delete pass is over and merge_directories returns.
MergeReturn ==
  /\ mpc = "delete" /\ dqueue = <<>>
  /\ UNCHANGED cOnly
  /\ mpc' = "done"
  /\ UNCHANGED <<source, target, order, overwrite, delete, dry_run, items,
                 dqueue, actions, source0, target0, dryActions, previewed>>

InitMerge ==
  /\ source \in TreesWith("A", MaxEntries)
  /\ target \in TreesWith("B", MaxTargetEntries)
  /\ order \in Orders
  /\ overwrite = FALSE /\ delete = FALSE /\ dry_run = FALSE
  /\ mpc = "idle"
  /\ items = <<>> /\ dqueue = <<>> /\ actions = <<>>
  /\ source0 = source /\ target0 = target
  /\ dryActions = <<>> /\ previewed = FALSE
  /\ CompareIdle
  /\ disk = [s \in 1..2 |-> EmptyDisk]

NextMerge ==
  \/ \E o \in BOOLEAN, dl \in BOOLEAN, d \in BOOLEAN : MergeDirectories(o, dl, d)
  \/ MergeItem
  \/ MergeLoopEnd
  \/ MergeDelete
  \/ MergeReturn

SpecMerge == InitMerge /\ [][NextMerge]_vars

\* -------------------------------------------------- comparison properties
RowsOf(k) == {i \in 1..Len(table) : table[i].path = k}
OneRow(k, status) ==
  /\ Cardinality(RowsOf(k)) = 1
  /\ \A i \in RowsOf(k) : table[i].status = status
Unequal == {k \in Keys(files1) \cap Keys(files2) :
              DictGet(files1, k) # DictGet(files2, k)}
OnlyLeft == Keys(files1) \ Keys(files2)
OnlyRight == Keys(files2) \ Keys(files1)

\* C1: a comparison that starts with both accumulators at zero returns with
\* exactly one MissingRight row per key only in the left snapshot, one
\* MissingLeft row per key only in the right one, one Modified row per common
\* key with unequal values and no row for any other key; the difference count
\* is the size of the symmetric difference of the key sets plus the number of
\* common keys with unequal values, and with identical snapshots it is 0 and
\* the table is empty.
C1_CompareClassifies ==
  (cpc = "returned" /\ total0 = 0 /\ differences0 = 0) =>
    /\ \A k \in OnlyLeft : OneRow(k, "MissingRight")
    /\ \A k \in OnlyRight : OneRow(k, "MissingLeft")
    /\ \A k \in Unequal : OneRow(k, "Modified")
    /\ \A i \in 1..Len(table) : table[i].path \in OnlyLeft \cup OnlyRight \cup Unequal
    /\ differences = Cardinality(OnlyLeft) + Cardinality(OnlyRight)
                       + Cardinality(Unequal)
    /\ (OnlyLeft = {} /\ OnlyRight = {} /\ Unequal = {}) =>
         differences = 0 /\ table = <<>>
\* Such a comparison returned with a Modified row, a MissingLeft row and a
\* common key with equal values.
C1_Witness ==
  /\ cpc = "returned" /\ total0 = 0 /\ differences0 = 0
  /\ \E i \in 1..Len(table) : table[i].status = "Modified"
  /\ \E i \in 1..Len(table) : table[i].status # "Modified"
  /\ differences = 2

\* C7: every call of compare_directories in a process returns with a
\* difference count equal to the number of rows it emitted and with count1
\* and count2 equal to the number of files it walked in its left and right
\* tree, whatever the calls before it did.
C7_CountsPerInvocation ==
  cpc = "returned" =>
    /\ differences = Len(table)
    /\ count1 = Len(files1)
    /\ count2 = Len(files2)

\* C8: the walk has no directory on its work list, and lists none, that is
\* or lies below a symbolic link; when the work list is empty the snapshot
\* holds every regular file of the tree exactly once, which is also what
\* count_files counted; and every walk gets to an empty work list, symbolic
\* links back to the root or not.
NoLinkOnPath(tree, p) ==
  \A k \in 1..Len(p) : ~IsLink(tree, SubSeq(p, 1, k))
RegularFiles(tree) == {p \in WPaths : tree[p].kind = "file"}
WorkListEmpty == cpc = "walk" /\ stack = <<>> /\ entries = <<>>
WalkEntersNoLink ==
  cpc = "walk" =>
    /\ \A i \in 1..Len(stack) : NoLinkOnPath(disk[side], stack[i])
    /\ \A i \in 1..Len(entries) :
         NoLinkOnPath(disk[side], Parent(entries[i].path))
WalkComplete ==
  WorkListEmpty =>
    LET files == IF side = 1 THEN files1 ELSE files2
    IN /\ Keys(files) = RegularFiles(disk[side])
       /\ Len(files) = Cardinality(RegularFiles(disk[side]))
       /\ seen_files = Len(files)
       /\ expected_files = seen_files
C8_WalkSkipsLinksAndEnds ==
  /\ [](WalkEntersNoLink /\ WalkComplete)
  /\ (cpc = "walk") ~> WorkListEmpty
\* A walk of a tree with a symbolic link and a file has emptied its work list.
C8_Witness ==
  /\ WorkListEmpty
  /\ \E p \in WPaths : disk[side][p] = Link
  /\ RegularFiles(disk[side]) # {}

\* C10: a file that vanishes between its listing and the reading of its
\* attribute is skipped: the walk does not end with an error.
C10_VanishedFileSkipped == cpc # "raised"

\* ------------------------------------------------------- merge properties
FilesWith(tree, c) == {p \in AllPaths : p # Root /\ tree[p] = c}
RealRun == mpc # "idle" /\ ~dry_run
Returned == mpc = "done"

\* C2: a dry run changes nothing: whatever overwrite and delete are, and also
\* when the target root is missing, the source and target trees are at every
\* point of the call, and when it returns, what they were when it was called.
C2_DryRunMutatesNothing ==
  dry_run => source = source0 /\ target = target0
\* A dry run returned after reporting the creation of the missing target
\* root, a move and a directory deletion.
C2_Witness ==
  /\ Returned /\ dry_run /\ delete
  /\ ~Exists(target0, Root)
  /\ \E i \in 1..Len(actions) : actions[i].op = "move"
  /\ \E i \in 1..Len(actions) : actions[i].op = "rmdir"

\* C3: the actions a dry run reports are, in order, the actions the merge
\* that follows on the same trees with the same overwrite and delete applies.
C3_DryRunEqualsRealRun ==
  (Returned /\ previewed) => actions = dryActions

\* C4: after a merge with overwrite and delete off that is not a dry run,
\* (1) a target file whose path the source occupies is unchanged and the
\* source entry stays, (2) a file whose path only the source had is in the
\* target at that path with the source's content, once the merge returned,
\* (3) what only the target had is untouched.
C4_MergeKeepsAndMoves ==
  (RealRun /\ ~overwrite /\ ~delete) =>
    /\ \A p \in AllPaths :
         (p # Root /\ IsFileNode(target0[p]) /\ Exists(source0, p)) =>
           target[p] = target0[p] /\ source[p] = source0[p]
    /\ Returned =>
         \A p \in AllPaths :
           (p # Root /\ IsFileNode(source0[p]) /\ ~Exists(target0, p)) =>
             target[p] = source0[p]
    /\ \A p \in AllPaths :
         (p # Root /\ Exists(target0, p) /\ ~Exists(source0, p)) =>
           target[p] = target0[p]
\* Such a merge returned with a colliding file kept and a file of a
\* subdirectory moved.
C4_Witness ==
  /\ Returned /\ ~dry_run /\ ~overwrite /\ ~delete
  /\ \E p \in AllPaths : IsFileNode(target0[p]) /\ IsFileNode(source0[p])
  /\ \E p \in AllPaths : Len(p) > 1 /\ IsFileNode(source0[p])
                         /\ ~Exists(target0, p) /\ target[p] = "A"

\* C5: after a merge with delete that is not a dry run, no directory below
\* the source root is empty (also not one emptied by the removal of its
\* subdirectories), every entry left in the source still has its directory,
\* and every source file is either where it was or in the target.
C5_DeletePassPrunes ==
  (Returned /\ ~dry_run /\ delete) =>
    /\ \A p \in AllPaths : p # Root => ~IsEmptyDir(source, p)
    /\ \A p \in AllPaths :
         (p # Root /\ Exists(source, p)) => IsDir(source, Parent(p))
    /\ Cardinality(FilesWith(source, "A")) + Cardinality(FilesWith(target, "A"))
         = Cardinality(FilesWith(source0, "A"))
\* A directory that held only a subdirectory and a file was removed after
\* the subdirectory was, the file having been moved.
C5_Witness ==
  /\ Returned /\ ~dry_run /\ delete
  /\ \E p \in AllPaths :
       /\ Len(p) = 1 /\ IsDir(source0, p) /\ ~Exists(source, p)
       /\ \E n \in Names : IsDir(source0, Append(p, n))
       /\ \E n \in Names : IsFileNode(source0[Append(p, n)])

\* C6: in a merge that is not a dry run, every source file whose target path
\* was free, or taken with overwrite on, is at its target path with the
\* source's content and gone from the source.
C6_MoveNotCopy ==
  (Returned /\ ~dry_run) =>
    \A p \in AllPaths :
      (p # Root /\ IsFileNode(source0[p]) /\ (overwrite \/ ~Exists(target0, p)))
        => target[p] = source0[p] /\ ~Exists(source, p)

\* C9: a source that is no directory, or a target that exists and is no
\* directory, ends the call with an error and both trees and the action list
\* untouched, whatever the flags; a missing target root is the first action.
C9_ValidationFirst ==
  /\ (mpc # "idle" /\ (~IsDir(source0, Root)
                        \/ (Exists(target0, Root) /\ ~IsDir(target0, Root)))) =>
       /\ mpc = "raised"
       /\ source = source0 /\ target = target0 /\ actions = <<>>
  /\ (mpc # "idle" /\ IsDir(source0, Root) /\ ~Exists(target0, Root)) =>
       /\ actions # <<>> /\ actions[1] = Act("mkroot", Root)
       /\ ~dry_run => IsDir(target, Root)
\* A call that deletes and overwrites was refused for its target, a plain file.
C9_Witness ==
  /\ mpc = "raised" /\ delete /\ overwrite /\ ~dry_run
  /\ IsDir(source0, Root) /\ IsFileNode(target0[Root])
  /\ \E p \in AllPaths : p # Root /\ Exists(source0, p)
====
